---- MODULE Spec2Model ----
(***************************************************************************)
(* Bill Management System: the SQLite store (db.py), the PDF invoice       *)
(* renderer (invoice.py) and the cart / bill-history handlers of BillApp   *)
(* (gui.py), as one state machine.                                         *)
(*                                                                         *)
(* Conventions.  Text is a sequence of one-character strings.  Money is an *)
(* integer number of cents (every catalog price has two decimals).         *)
(* Lengths on the page are thousandths of a point.                         *)
(***************************************************************************)
EXTENDS Integers, Sequences, FiniteSets, TLC

VARIABLES
    db,             \* bills.db as other connections see it (committed rows)
    conn,           \* add_bill's open connection and its locals
    cart,           \* BillApp.cart
    selected_bill,  \* BillApp.selected_bill
    bills_tree,     \* rows shown by the "Previous Bills" Treeview
    tree_sel,       \* Treeview.selection(): the selected row's position, if any
    select_event,   \* a <<TreeviewSelect>> event is waiting in Tk's queue
    files,          \* the invoices directory: path -> document
    out             \* what the last handler showed: a message box, a viewer, nothing

vars == <<db, conn, cart, selected_bill, bills_tree, tree_sel, select_event, files, out>>

\* Python's None where a tuple is expected (both are tested by truthiness)
None == <<>>

----------------------------------------------------------------------------
(* Bounds of the model *)
MaxLines    == 3    \* lines added to carts in a run (in the cart or stored)
MaxInvItems == 64   \* lines of the bills rendered under SpecInvoice

----------------------------------------------------------------------------
(* Generic helpers *)

Max(S) == CHOOSE x \in S : \A y \in S : y <= x

\* the sum of a sequence of numbers (halved, to keep the evaluation shallow)
RECURSIVE SumSeq(_)
SumSeq(s) ==
    IF s = <<>> THEN 0
    ELSE IF Len(s) = 1 THEN s[1]
    ELSE LET h == Len(s) \div 2
         IN  SumSeq(SubSeq(s, 1, h)) + SumSeq(SubSeq(s, h + 1, Len(s)))

----------------------------------------------------------------------------
(* Text: str.strip, str.isdigit, int(), str(int), "%.2f" and float() *)

WhiteSpace == {" "}

\* a strip that leaves the text as typed
StripNothing(s) == s

RECURSIVE LStrip(_)
LStrip(s) == IF s # <<>> /\ Head(s) \in WhiteSpace THEN LStrip(Tail(s)) ELSE s

RECURSIVE RStrip(_)
RStrip(s) ==
    IF s # <<>> /\ s[Len(s)] \in WhiteSpace THEN RStrip(SubSeq(s, 1, Len(s) - 1)) ELSE s

\* str.strip()
Strip(s) == RStrip(LStrip(s))

DigitChar(d) == <<"0", "1", "2", "3", "4", "5", "6", "7", "8", "9">>[d + 1]
AsciiDigit == {DigitChar(d) : d \in 0..9}
\* characters str.isdigit accepts: the decimal digits and digit-like characters
\* such as a superscript two, which int() refuses
UnicodeDigit == AsciiDigit \cup {"sup2"}

IsDigit(s) == s # <<>> /\ \A i \in DOMAIN s : s[i] \in UnicodeDigit

RECURSIVE Str(_)
Str(n) == IF n < 10 THEN <<DigitChar(n)>> ELSE Str(n \div 10) \o <<DigitChar(n % 10)>>

\* f"${total:.2f}" and float(text.strip().replace("$", ""))
FormatMoney(c) == <<"$">> \o Str(c \div 100) \o <<".">> \o Str((c % 100) \div 10) \o Str(c % 10)

\* int(text): surrounding white space and one sign are allowed, then decimal
\* digits only; anything else raises ValueError
RECURSIVE DigitsValue(_)
DigitsValue(s) ==
    IF s = <<>> THEN 0
    ELSE 10 * DigitsValue(SubSeq(s, 1, Len(s) - 1))
         + (CHOOSE d \in 0..9 : DigitChar(d) = s[Len(s)])

Signs == {"+", "-"}
Unsigned(s) == IF s # <<>> /\ Head(s) \in Signs THEN Tail(s) ELSE s
IntParses(s) ==
    LET t == Unsigned(Strip(s))
    IN  t # <<>> /\ \A i \in DOMAIN t : t[i] \in AsciiDigit
ParseInt(s) ==
    LET t == Strip(s)
    IN  IF t # <<>> /\ Head(t) = "-" THEN 0 - DigitsValue(Tail(t)) ELSE DigitsValue(Unsigned(t))

\* float(text) of a text with two decimals, in cents
ParseFloat(t) ==
    LET dot == CHOOSE i \in DOMAIN t : t[i] = "."
    IN  100 * DigitsValue(SubSeq(t, 1, dot - 1)) + DigitsValue(SubSeq(t, dot + 1, Len(t)))

IsNotDollar(ch) == ch # "$"
ParseMoney(s) == ParseFloat(SelectSeq(Strip(s), IsNotDollar))

----------------------------------------------------------------------------
(* The product dropdown: "name - price" entries *)

Catalog == <<
    [name |-> "Laptop",              price |-> <<"8","0","0",".","0","0">>],
    [name |-> "Smartphone",          price |-> <<"5","0","0",".","0","0">>],
    [name |-> "Tablet",              price |-> <<"3","0","0",".","0","0">>],
    [name |-> "Headphones",          price |-> <<"1","0","0",".","0","0">>],
    [name |-> "Smartwatch",          price |-> <<"1","5","0",".","0","0">>],
    [name |-> "Gaming Console",      price |-> <<"6","0","0",".","0","0">>],
    [name |-> "4K Monitor",          price |-> <<"4","0","0",".","0","0">>],
    [name |-> "Mechanical Keyboard", price |-> <<"1","2","0",".","0","0">>],
    [name |-> "Wireless Mouse",      price |-> <<"4","0",".","0","0">>],
    [name |-> "External Hard Drive", price |-> <<"1","2","0",".","0","0">>] >>

\* the entry picked in the runs explored
ProductChoices == {1}

\* texts typed in the quantity entry: empty, zero, positive (with and without a
\* leading zero), signed, decimal, letters, blank-padded, a non-decimal digit
QtyTexts == {<<>>, <<"0">>, <<"1">>, <<"0", "1">>, <<"1", "0">>,
             <<"-", "1">>, <<"+", "1">>, <<"1", ".", "5">>, <<"a">>,
             <<" ", "1">>, <<"sup2">>}

\* texts typed in the customer entry: empty, blank, a name, a blank-padded name
CustomerTexts == {<<>>, <<" ">>, <<" ", " ">>, <<"A">>, <<" ", "A", " ">>}

\* datetime.now().strftime(...): the wall clock is not modelled, one reading
Dates == {"2025-01-01 10:00:00"}

----------------------------------------------------------------------------
(* db.py: the store *)

NoFile == [tables |-> {}, bills |-> {}, bill_items |-> {},
           sqlite_sequence |-> [bills |-> 0, bill_items |-> 0]]

\* CREATE TABLE on a table dropped first
CreateTableAnew(d, t) == [d EXCEPT !.tables = @ \cup {t}, ![t] = {}]

\* CREATE TABLE IF NOT EXISTS t
CreateTableIfNotExists(d, t) ==
    IF t \in d.tables
    THEN d
    ELSE [d EXCEPT !.tables = @ \cup {t}, ![t] = {}]

init_db(d) == CreateTableIfNotExists(CreateTableIfNotExists(d, "bills"), "bill_items")

\* INSERT INTO bills: AUTOINCREMENT takes the id after the largest ever used
InsertBill(d, customer, date, total) ==
    LET id == d.sqlite_sequence.bills + 1
    IN  [d EXCEPT !.bills = @ \cup {[id |-> id, customer |-> customer, date |-> date,
                                      total |-> total]},
                  !.sqlite_sequence.bills = id]

LastRowId(d) == d.sqlite_sequence.bills

\* an insert that binds the price and the quantity to each other's column
InsertItemSwapped(d, bill_id, line) ==
    LET id == d.sqlite_sequence.bill_items + 1
    IN  [d EXCEPT !.bill_items = @ \cup {[id |-> id, bill_id |-> bill_id,
                                           product |-> line[1], price |-> line[3],
                                           quantity |-> line[2]]},
                  !.sqlite_sequence.bill_items = id]

\* INSERT INTO bill_items
InsertItem(d, bill_id, line) ==
    LET id == d.sqlite_sequence.bill_items + 1
    IN  [d EXCEPT !.bill_items = @ \cup {[id |-> id, bill_id |-> bill_id,
                                           product |-> line[1], price |-> line[2],
                                           quantity |-> line[3]]},
                  !.sqlite_sequence.bill_items = id]

\* conn.commit(): the connection's pending rows become the store
Commit(d, tx) == tx

\* a store that keeps what a failed connection had written so far
RollbackKeepsWrites(d, tx) == tx

\* the connection is dropped without a commit: SQLite rolls its transaction back
Rollback(d, tx) == d

\* ORDER BY id ASC
OrderByIdAscending(S) ==
    [i \in 1..Cardinality(S) |->
        CHOOSE r \in S : Cardinality({x \in S : x.id < r.id}) = i - 1]

\* ORDER BY id DESC: row i has i - 1 rows of larger id before it
OrderByIdDesc(S) ==
    [i \in 1..Cardinality(S) |->
        CHOOSE r \in S : Cardinality({x \in S : x.id > r.id}) = i - 1]

\* rows in rowid order
OrderByRowId(S) ==
    [i \in 1..Cardinality(S) |->
        CHOOSE r \in S : Cardinality({x \in S : x.id < r.id}) = i - 1]

BillTuple(r) == <<r.id, r.customer, r.date, r.total>>
ItemTuple(r) == <<r.product, r.price, r.quantity>>

\* SELECT id, customer, date, total FROM bills ORDER BY id DESC
fetch_bills(d) ==
    LET rows == OrderByIdDesc(d.bills)
    IN  [i \in DOMAIN rows |-> BillTuple(rows[i])]

\* SELECT product, price, quantity FROM bill_items WHERE bill_id = ? (a table scan:
\* rows come in rowid order)
fetch_bill_items(d, bill_id) ==
    LET rows == OrderByRowId({r \in d.bill_items : r.bill_id = bill_id})
    IN  [i \in DOMAIN rows |-> ItemTuple(rows[i])]

----------------------------------------------------------------------------
(* invoice.py *)

PageHeight == 841890   \* A4 is 841.89 points high
TableTop   == 200000   \* the first row is drawn at height - 200
RowStep    == 20000    \* y -= 20
PageLimit  == 100000   \* if y < 100: showPage()
PageTop    == 50000    \* y = height - 50 on a new page
TotalGap   == 30000    \* the grand total is drawn at y - 30

\* one file name for every bill
InvoicePathShared(bill_id) == <<"invoices", "/", "invoice", ".pdf">>

\* os.path.join("invoices", f"invoice_{bill_id}.pdf")
InvoicePath(bill_id) == <<"invoices", "/", "invoice_">> \o Str(bill_id) \o <<".pdf">>

RowOp(y, item) == [op |-> "row", y |-> y, item |-> item, amount |-> item[2] * item[3]]
TotalOp(y, total) == [op |-> "total", y |-> y, item |-> <<>>, amount |-> total]

\* a page that ends at its lower edge only
PageIsFullAtEdge(y) == y < 0

\* if y < 100
PageIsFull(y) == y < PageLimit

\* one turn of the loop over items; st is the closed pages, the page being
\* drawn and the pen position y
DrawRow(st, item) ==
    LET drawn == Append(st.page, RowOp(st.y, item))
        y1 == st.y - RowStep
    IN  IF PageIsFull(y1)
        THEN [closed |-> Append(st.closed, drawn), page |-> <<>>, y |-> PageHeight - PageTop]
        ELSE [closed |-> st.closed, page |-> drawn, y |-> y1]

\* the loop over items[lo..hi], halved to keep the evaluation shallow; the test
\* of the pen position (always on the page) makes the first half be drawn
\* before the second is started
RECURSIVE DrawRows(_, _, _, _)
DrawRows(st, items, lo, hi) ==
    IF lo > hi THEN st
    ELSE IF lo = hi THEN DrawRow(st, items[lo])
    ELSE LET mid == (lo + hi) \div 2
             first == DrawRows(st, items, lo, mid)
         IN  IF first.y <= PageHeight THEN DrawRows(first, items, mid + 1, hi) ELSE first

generate_invoice(bill_id, customer, date, total, items) ==
    LET r == DrawRows([closed |-> <<>>, page |-> <<>>, y |-> PageHeight - TableTop],
                      items, 1, Len(items))
    IN  [path |-> InvoicePath(bill_id),
         bill_id |-> bill_id, customer |-> customer, date |-> date,
         pages |-> Append(r.closed, Append(r.page, TotalOp(r.y - TotalGap, total)))]

\* canvas.save(): the file at the document's path is replaced
WriteFile(fs, doc) == {f \in fs : f.path # doc.path} \cup {doc}

PathExists(fs, path) == \E f \in fs : f.path = path

----------------------------------------------------------------------------
(* gui.py: BillApp *)

Closed == [open |-> FALSE]
Idle == ~conn.open /\ ~select_event

\* load_bills: the tree's rows are deleted and the fetched bills inserted
TreeRows(d) ==
    LET rows == fetch_bills(d)
    IN  [i \in DOMAIN rows |->
            <<Str(rows[i][1]), rows[i][2], rows[i][3], FormatMoney(rows[i][4])>>]

\* a load that leaves the history view as it was
LoadNothing(d) == UNCHANGED <<bills_tree, tree_sel, select_event>>

\* Deleting a selected row empties the selection; whether Tk then sends
\* <<TreeviewSelect>> depends on the Tk release, so both outcomes are possible.
load_bills(d) ==
    /\ bills_tree' = TreeRows(d)
    /\ tree_sel' = <<>>
    /\ IF tree_sel # <<>> THEN select_event' \in BOOLEAN ELSE select_event' = select_event

\* BillApp.__init__ on a store file left by earlier runs (or none)
Start(d) ==
    /\ db = init_db(d)
    /\ conn = Closed
    /\ cart = <<>>
    /\ selected_bill = None
    /\ bills_tree = TreeRows(db)
    /\ tree_sel = <<>>
    /\ select_event = FALSE
    /\ out = <<>>

Init == Start(NoFile) /\ files = {}

\* the window is closed and the program started again
restart ==
    /\ Idle
    /\ db' = init_db(db)
    /\ conn' = Closed
    /\ cart' = <<>>
    /\ selected_bill' = None
    /\ bills_tree' = TreeRows(db')
    /\ tree_sel' = <<>>
    /\ select_event' = FALSE
    /\ out' = <<>>
    /\ UNCHANGED files

\* the messages of the handlers' error boxes
QuantityError == <<"showerror", "Error", <<"Please enter a valid quantity (1 or more).">>>>
CustomerError == <<"showerror", "Error", <<"Please enter a customer name.">>>>
CartError     == <<"showerror", "Error", <<"Your cart is empty. Add some products first.">>>>
NoBillsError  == <<"showerror", "Error", <<"No bills found in database.">>>>
DatabaseError == <<"showerror", "Database Error", <<"Failed to save bill">>>>
ExportError   == <<"showerror", "Export Error", <<"Failed to generate invoice">>>>
GenerateError == <<"showerror", "Error", <<"Failed to generate invoice">>>>
\* an exception no handler catches: Tk reports it and the handler ends
Uncaught(e)   == <<"exception", e, <<>>>>

\* a check that lets zero through
QtyNegative(n) == n < 0

\* int(qty_text) <= 0
QtyNotPositive(n) == n <= 0

add_to_cart(p, qty_text) ==
    /\ Idle
    /\ IF ~IsDigit(qty_text)
       THEN /\ out' = QuantityError
            /\ UNCHANGED cart
       ELSE IF ~IntParses(qty_text)
       THEN /\ out' = Uncaught("ValueError")
            /\ UNCHANGED cart
       ELSE IF QtyNotPositive(ParseInt(qty_text))
       THEN /\ out' = QuantityError
            /\ UNCHANGED cart
       ELSE /\ Len(cart) + Cardinality(db.bill_items) < MaxLines
            /\ cart' = Append(cart, <<Catalog[p].name, ParseFloat(Catalog[p].price),
                                      ParseInt(qty_text)>>)
            /\ out' = <<>>
    /\ UNCHANGED <<db, conn, selected_bill, bills_tree, tree_sel, select_event, files>>

\* a total that forgets the quantities
CartTotalOfPrices(c) == SumSeq([i \in DOMAIN c |-> c[i][2]])

\* sum(price * qty for _, price, qty in self.cart)
CartTotal(c) == SumSeq([i \in DOMAIN c |-> c[i][2] * c[i][3]])

\* save_bill up to the call of add_bill, which connects to the store
save_bill(customer_text, date) ==
    /\ Idle
    /\ UNCHANGED <<db, cart, selected_bill, bills_tree, tree_sel, select_event, files>>
    /\ LET customer == Strip(customer_text)
       IN  IF customer = <<>>
           THEN /\ out' = CustomerError
                /\ UNCHANGED conn
           ELSE IF cart = <<>>
           THEN /\ out' = CartError
                /\ UNCHANGED conn
           ELSE /\ conn' = [open |-> TRUE, tx |-> db, step |-> 0, bill_id |-> 0,
                            customer |-> customer, date |-> date,
                            total |-> CartTotal(cart), items |-> cart]
                /\ out' = <<>>

\* add_bill: INSERT INTO bills, bill_id = cur.lastrowid
add_bill_insert_bill ==
    /\ conn.open /\ conn.step = 0
    /\ LET tx == InsertBill(conn.tx, conn.customer, conn.date, conn.total)
       IN  conn' = [conn EXCEPT !.tx = tx, !.bill_id = LastRowId(tx), !.step = 1]
    /\ UNCHANGED <<db, cart, selected_bill, bills_tree, tree_sel, select_event, files, out>>

\* add_bill: one turn of the loop over items
add_bill_insert_item ==
    /\ conn.open /\ conn.step \in 1..Len(conn.items)
    /\ conn' = [conn EXCEPT !.tx = InsertItem(@, conn.bill_id, conn.items[conn.step]),
                            !.step = @ + 1]
    /\ UNCHANGED <<db, cart, selected_bill, bills_tree, tree_sel, select_event, files, out>>

\* add_bill: conn.commit(), conn.close(), return; then the rest of save_bill
add_bill_commit ==
    /\ conn.open /\ conn.step > Len(conn.items)
    /\ db' = Commit(db, conn.tx)
    /\ conn' = Closed
    /\ selected_bill' = <<conn.bill_id, conn.customer, conn.date, conn.total>>
    /\ out' = <<"showinfo", "Bill Saved", Str(conn.bill_id)>>
    /\ cart' = <<>>
    /\ load_bills(db')
    /\ UNCHANGED files

\* add_bill: a statement or the commit raises (the store is locked or full, a
\* value does not fit its column); save_bill's except clause reports it and the
\* connection is dropped with the exception
add_bill_raise ==
    /\ conn.open
    /\ db' = Rollback(db, conn.tx)
    /\ conn' = Closed
    /\ out' = DatabaseError
    /\ UNCHANGED <<cart, selected_bill, bills_tree, tree_sel, select_event, files>>

\* the user picks row k of the bill history
click_bill(k) ==
    /\ Idle
    /\ k \in DOMAIN bills_tree
    /\ tree_sel' = <<k>>
    /\ select_event' = TRUE
    /\ out' = <<>>
    /\ UNCHANGED <<db, conn, cart, selected_bill, bills_tree, files>>

on_bill_select ==
    /\ select_event
    /\ select_event' = FALSE
    /\ IF tree_sel = <<>>
       THEN selected_bill' = None
       ELSE LET vals == bills_tree[tree_sel[1]]
            IN  selected_bill' = <<ParseInt(vals[1]), vals[2], vals[3], ParseMoney(vals[4])>>
    /\ UNCHANGED <<db, conn, cart, bills_tree, tree_sel, files, out>>

\* the bill export and open work on: selected_bill, else the first fetched row
HasTarget == selected_bill # None \/ fetch_bills(db) # <<>>
\* a target that ignores the selection
TargetBillNewest == fetch_bills(db)[1]

TargetBill == IF selected_bill # None THEN selected_bill ELSE fetch_bills(db)[1]

Invoice(b) == generate_invoice(b[1], b[2], b[3], b[4], fetch_bill_items(db, b[1]))

\* written: whether the file could be written
export_invoice(written) ==
    /\ Idle
    /\ UNCHANGED <<db, conn, cart, selected_bill, bills_tree, tree_sel, select_event>>
    /\ IF ~HasTarget
       THEN /\ out' = NoBillsError
            /\ UNCHANGED files
       ELSE IF written
       THEN /\ files' = WriteFile(files, Invoice(TargetBill))
            /\ out' = <<"showinfo", "Export Successful", Invoice(TargetBill).path>>
       ELSE /\ out' = ExportError
            /\ UNCHANGED files

open_invoice_external(written) ==
    /\ Idle
    /\ UNCHANGED <<db, conn, cart, selected_bill, bills_tree, tree_sel, select_event>>
    /\ IF ~HasTarget
       THEN /\ out' = NoBillsError
            /\ UNCHANGED files
       ELSE LET invoice_path == InvoicePath(TargetBill[1])
            IN  IF PathExists(files, invoice_path)
                THEN /\ out' = <<"open", "viewer", invoice_path>>
                     /\ UNCHANGED files
                ELSE IF written
                THEN /\ files' = WriteFile(files, Invoice(TargetBill))
                     /\ out' = <<"open", "viewer", invoice_path>>
                ELSE /\ out' = GenerateError
                     /\ UNCHANGED files

Next ==
    \/ \E p \in ProductChoices, qty_text \in QtyTexts : add_to_cart(p, qty_text)
    \/ \E customer_text \in CustomerTexts, date \in Dates : save_bill(customer_text, date)
    \/ add_bill_insert_bill
    \/ add_bill_insert_item
    \/ add_bill_commit
    \/ add_bill_raise
    \/ \E k \in 1..MaxLines : click_bill(k)
    \/ on_bill_select
    \/ \E written \in BOOLEAN : export_invoice(written)
    \/ \E written \in BOOLEAN : open_invoice_external(written)
    \/ restart

Spec == Init /\ [][Next]_vars

----------------------------------------------------------------------------
(* Rendering long bills: the program started on a store that holds one bill *)
(* of n lines, saved by an earlier run.                                     *)

\* the store after one add_bill(customer, date, total, items) on a new file
StoreWithBill(customer, date, items) ==
    LET d == InsertBill(init_db(NoFile), customer, date, CartTotal(items))
    IN  [d EXCEPT !.bill_items = {[id |-> i, bill_id |-> LastRowId(d), product |-> items[i][1],
                                   price |-> items[i][2], quantity |-> items[i][3]]
                                      : i \in DOMAIN items},
                  !.sqlite_sequence.bill_items = Len(items)]

\* a cart of n lines that walks through the catalog
LongCart(n, qty) ==
    [i \in 1..n |-> <<Catalog[((i - 1) % Len(Catalog)) + 1].name,
                      ParseFloat(Catalog[((i - 1) % Len(Catalog)) + 1].price), qty>>]

InitInvoice ==
    /\ \E n \in 1..MaxInvItems, qty \in {1, 11}, date \in Dates :
          Start(StoreWithBill(<<"A">>, date, LongCart(n, qty)))
    /\ files = {}

NextInvoice ==
    \/ \E k \in 1..MaxLines : click_bill(k)
    \/ on_bill_select
    \/ \E written \in BOOLEAN : export_invoice(written)
    \/ \E written \in BOOLEAN : open_invoice_external(written)
    \/ restart

SpecInvoice == InitInvoice /\ [][NextInvoice]_vars

----------------------------------------------------------------------------
(* Properties *)

ItemsOf(d, bill_id) == {it \in d.bill_items : it.bill_id = bill_id}

\* the sum of price * quantity over a set of bill_items rows
RECURSIVE RowsTotal(_)
RowsTotal(S) ==
    IF S = {} THEN 0
    ELSE LET r == CHOOSE x \in S : TRUE
         IN  r.price * r.quantity + RowsTotal(S \ {r})

BillSaved(bill_id) == out = <<"showinfo", "Bill Saved", Str(bill_id)>>

(* C1: a successful save_bill of a cart of N >= 1 lines and a non-empty       *)
(* customer name adds exactly one row to bills and exactly N rows to          *)
(* bill_items; the N rows carry the new bill's id and hold the cart's         *)
(* product, price and quantity in cart order; the bill's stored total is the  *)
(* sum of price * quantity over the cart lines.                               *)
C1_SaveBillPersistsCart ==
    [][add_bill_commit =>
        LET newBills == db'.bills \ db.bills
            newItems == db'.bill_items \ db.bill_items
        IN  /\ Len(cart) >= 1
            /\ Cardinality(newBills) = 1
            /\ Cardinality(newItems) = Len(cart)
            /\ \A b \in newBills :
                  /\ b.customer # <<>>
                  /\ \A it \in newItems : it.bill_id = b.id
                  /\ \A it \in db.bill_items : it.bill_id # b.id
                  /\ \A i \in DOMAIN cart : \E it \in newItems :
                        /\ <<it.product, it.price, it.quantity>> = cart[i]
                        /\ Cardinality({x \in newItems : x.id < it.id}) = i - 1
                  /\ b.total = RowsTotal(newItems)
                  /\ b.total = SumSeq([i \in DOMAIN cart |-> cart[i][2] * cart[i][3]])
    ]_vars

\* a saved bill of two lines with different quantities
C1_Witness ==
    \E b \in db.bills :
        /\ BillSaved(b.id)
        /\ Cardinality(ItemsOf(db, b.id)) = 2
        /\ \E x, y \in ItemsOf(db, b.id) : x.quantity # y.quantity

\* every visible bill has all of its item rows, and every visible item row its bill
BillsAreWhole(d) ==
    /\ \A b \in d.bills : ItemsOf(d, b.id) # {} /\ RowsTotal(ItemsOf(d, b.id)) = b.total
    /\ \A it \in d.bill_items : \E b \in d.bills : b.id = it.bill_id

(* C2: add_bill is atomic.  In every reachable state a bill row is visible    *)
(* in the store if and only if all of its item rows are; while add_bill is    *)
(* running none of its rows is visible; and when add_bill fails, at the bill  *)
(* insert, at an item insert or at the commit, the store is left without the  *)
(* new bill row and without any of its item rows.                             *)
C2_AddBillAtomic ==
    /\ [](BillsAreWhole(db)
          /\ (conn.open /\ conn.step >= 1 =>
                /\ \A b \in db.bills : b.id # conn.bill_id
                /\ ItemsOf(db, conn.bill_id) = {}))
    /\ [][conn.open /\ (conn'.open \/ out' = DatabaseError) => db' = db]_vars

\* add_bill has failed on a store that holds an earlier bill
C2_Witness == out = DatabaseError /\ ~conn.open /\ db.bills # {} /\ Len(cart) = 2

IsBlank(text) == \A i \in DOMAIN text : text[i] \in WhiteSpace

(* C3: save_bill is rejected when the customer name is empty after trimming   *)
(* white space or when the cart is empty: add_bill is not called, so bills    *)
(* and bill_items are unchanged, and the cart and the selected bill are       *)
(* unchanged too.                                                             *)
C3_SaveBillRejects ==
    [][\A customer_text \in CustomerTexts, date \in Dates :
          save_bill(customer_text, date) /\ (IsBlank(customer_text) \/ cart = <<>>) =>
              /\ ~conn'.open
              /\ out' \in {CustomerError, CartError}
              /\ db' = db
              /\ cart' = cart
              /\ selected_bill' = selected_bill
    ]_vars

\* a save was rejected for its blank customer name while the cart had lines
C3_Witness == out = CustomerError /\ cart # <<>> /\ ~conn.open

\* the text is a decimal numeral of a positive integer
IsPositiveNumeral(text) ==
    /\ text # <<>>
    /\ \A i \in DOMAIN text : text[i] \in AsciiDigit
    /\ \E i \in DOMAIN text : text[i] # "0"

(* C4: add_to_cart rejects every quantity text that is not numeric or that    *)
(* denotes a non-positive integer (empty, zero, negative, decimal, letters)   *)
(* and leaves the cart unchanged; every accepted input appends exactly one    *)
(* line at the end of the cart and leaves the earlier lines unchanged.        *)
C4_AddToCartValidates ==
    [][\A p \in ProductChoices, qty_text \in QtyTexts :
          add_to_cart(p, qty_text) =>
              IF IsPositiveNumeral(qty_text)
              THEN /\ Len(cart') = Len(cart) + 1
                   /\ SubSeq(cart', 1, Len(cart)) = cart
                   /\ cart'[Len(cart')][1] = Catalog[p].name
                   /\ cart'[Len(cart')][3] >= 1
              ELSE /\ cart' = cart
                   /\ out' \in {QuantityError, Uncaught("ValueError")}
    ]_vars

\* a quantity was rejected while the cart had a line
C4_Witness == out = QuantityError /\ Len(cart) = 1

(* C5: after any sequence of saves, fetch_bills returns every persisted bill  *)
(* exactly once, in strictly descending order of identifier, and the bill     *)
(* saved last is first.                                                       *)
C5_FetchBillsNewestFirst ==
    /\ [](LET rows == fetch_bills(db)
          IN  /\ Len(rows) = Cardinality(db.bills)
              /\ \A b \in db.bills :
                    Cardinality({i \in DOMAIN rows :
                        rows[i] = <<b.id, b.customer, b.date, b.total>>}) = 1
              /\ \A i, j \in DOMAIN rows : i < j => rows[i][1] > rows[j][1])
    /\ [][add_bill_commit => fetch_bills(db')[1][1] = conn.bill_id]_vars

\* two bills are stored and the second was just saved
C5_Witness == Cardinality(db.bills) = 2 /\ BillSaved(2)

\* the path names the bill: invoices/invoice_<id>.pdf, <id> in decimal
IsInvoicePathOf(path, bill_id) ==
    /\ Len(path) >= 5
    /\ SubSeq(path, 1, 3) = <<"invoices", "/", "invoice_">>
    /\ path[Len(path)] = ".pdf"
    /\ LET digits == SubSeq(path, 4, Len(path) - 1)
       IN  /\ \A i \in DOMAIN digits : digits[i] \in AsciiDigit
           /\ digits[1] # "0"
           /\ DigitsValue(digits) = bill_id

(* C6: an export of a bill writes invoices/invoice_<id>.pdf, a path that      *)
(* depends on the bill identifier only, so exporting the same bill again      *)
(* names the same path and replaces the file instead of adding one; the      *)
(* files of other bills are untouched, and two different bill identifiers    *)
(* never have the same path.                                                 *)
C6_ExportPathByBillId ==
    /\ [](/\ \A f \in files : IsInvoicePathOf(f.path, f.bill_id)
          /\ \A f, g \in files : f.bill_id = g.bill_id => f = g
          /\ \A a, b \in db.bills : a.id # b.id => InvoicePath(a.id) # InvoicePath(b.id))
    /\ [][export_invoice(TRUE) /\ HasTarget =>
            \E f \in files' :
                /\ f.bill_id = TargetBill[1]
                /\ out' = <<"showinfo", "Export Successful", f.path>>
                /\ files' \ {f} = {g \in files : g.bill_id # f.bill_id}
                /\ Cardinality(files') =
                      IF \E g \in files : g.bill_id = f.bill_id
                      THEN Cardinality(files) ELSE Cardinality(files) + 1
       ]_vars

\* bill 1 was exported while the invoices of both bills exist
C6_Witness ==
    /\ Cardinality(files) = 2
    /\ out = <<"showinfo", "Export Successful", <<"invoices", "/", "invoice_", "1", ".pdf">>>>

C8_StoreAppendOnly ==
    /\ [](/\ \A it \in db.bill_items :
                Cardinality({b \in db.bills : b.id = it.bill_id}) = 1
          /\ \A a, b \in db.bills : a.id = b.id => a = b
          /\ \A x, y \in db.bill_items : x.id = y.id => x = y)
    /\ [][/\ db.bills \subseteq db'.bills
          /\ db.bill_items \subseteq db'.bill_items
          /\ \A it \in db'.bill_items \ db.bill_items :
                \E b \in db'.bills \ db.bills : b.id = it.bill_id
          /\ Cardinality(db'.bills \ db.bills) <= 1
          /\ (restart => db' = db)
       ]_vars

\* the program was started again on a store that holds two bills
C8_Witness ==
    /\ Cardinality(db.bills) = 2 /\ Cardinality(db.bill_items) >= 2
    /\ out = <<>> /\ cart = <<>> /\ selected_bill = None
    /\ tree_sel = <<>> /\ ~select_event /\ ~conn.open

\* what an export or open step does when it works on bill bill_id
WorksOnBill(bill_id) ==
    /\ \E b \in db.bills : b.id = bill_id
    /\ \A f \in files' \ files :
          /\ f.bill_id = bill_id
          /\ \E b \in db.bills : <<b.id, b.customer, b.date>> = <<f.bill_id, f.customer, f.date>>
    /\ files \subseteq files' \/ Cardinality(files') = Cardinality(files)
    /\ out'[1] \in {"showinfo", "open", "showerror"}
    /\ out'[1] \in {"showinfo", "open"} =>
          /\ IsInvoicePathOf(out'[3], bill_id)
          /\ \E f \in files' : f.path = out'[3] /\ f.bill_id = bill_id
    /\ out'[1] = "showerror" => files' = files

(* C9: export_invoice and open_invoice_external work on the selected bill     *)
(* whenever one is selected, whatever the last save set; with no bill         *)
(* selected they work on the bill with the highest identifier; with no bill   *)
(* selected and an empty store they report an error and create no file.  The  *)
(* bill they work on always exists in the store.                              *)
C9_ExportTarget ==
    /\ [](selected_bill # None =>
            \E b \in db.bills : selected_bill = <<b.id, b.customer, b.date, b.total>>)
    /\ [][\A written \in BOOLEAN :
            export_invoice(written) \/ open_invoice_external(written) =>
                IF selected_bill # None
                THEN WorksOnBill(selected_bill[1])
                ELSE IF db.bills # {}
                THEN WorksOnBill(Max({b.id : b \in db.bills}))
                ELSE out' = NoBillsError /\ files' = files
       ]_vars

\* the older of two bills is selected and was exported
C9_Witness ==
    /\ Cardinality(db.bills) = 2
    /\ selected_bill # None /\ selected_bill[1] = 1
    /\ out = <<"showinfo", "Export Successful", <<"invoices", "/", "invoice_", "1", ".pdf">>>>
    /\ \A f \in files : f.bill_id = 1

\* the rows of the pages before page p
RowsBefore(pages, p) == SumSeq([q \in 1..(p - 1) |-> Len(pages[q])])

(* C10: for every item list generate_invoice draws exactly one row per item,  *)
(* in input order; it starts a new page exactly when the vertical position    *)
(* after a row is below 100; no item row is drawn at a vertical position      *)
(* below 100; and the grand total is drawn exactly once, after the last item  *)
(* row: below it on the same page, or on the following page when the last     *)
(* row caused the page break.                                                 *)
C10_InvoiceLayout ==
    \A f \in files :
        LET pages == f.pages
            last == Len(pages)
            items == ItemsOf(db, f.bill_id)
            firstId == CHOOSE n \in {it.id : it \in items} : \A it \in items : n <= it.id
        IN  /\ last >= 1
            /\ RowsBefore(pages, last + 1) = Cardinality(items) + 1
            /\ \A p \in DOMAIN pages : \A k \in DOMAIN pages[p] :
                  LET o == pages[p][k]
                  IN  IF p = last /\ k = Len(pages[p])
                      THEN /\ o.op = "total"
                           /\ o.y = IF k = 1
                                    THEN IF p = 1 THEN PageHeight - TableTop - TotalGap
                                                  ELSE PageHeight - PageTop - TotalGap
                                    ELSE pages[p][k - 1].y - RowStep - TotalGap
                      ELSE /\ o.op = "row"
                           /\ \E it \in items :
                                 /\ it.id = firstId + RowsBefore(pages, p) + k - 1
                                 /\ o.item = <<it.product, it.price, it.quantity>>
                           /\ o.y >= PageLimit
                           /\ o.y = IF k > 1 THEN pages[p][k - 1].y - RowStep
                                    ELSE IF p = 1 THEN PageHeight - TableTop
                                    ELSE PageHeight - PageTop
                           /\ (o.y - RowStep < PageLimit) <=> (k = Len(pages[p]))

\* an invoice whose last row caused a page break: the total is alone on page 2
C10_Witness == \E f \in files : Len(f.pages) = 2 /\ Len(f.pages[2]) = 1

\* the text has no white space at either end
IsTrimmed(text) ==
    text = <<>> \/ (text[1] \notin WhiteSpace /\ text[Len(text)] \notin WhiteSpace)

\* the row's product and unit price are those of one entry of the dropdown
FromCatalog(it) ==
    \E k \in DOMAIN Catalog :
        /\ it.product = Catalog[k].name
        /\ FormatMoney(it.price) = <<"$">> \o Catalog[k].price

(* C11: after any sequence of add_to_cart, save_bill, bill selection and      *)
(* export actions, every bill in the store has a non-empty customer name      *)
(* without surrounding white space and at least one item, and every stored    *)
(* item has a quantity of at least 1 and a product name and unit price that   *)
(* are those of an entry of the fixed catalog.                                *)
C11_StoredRowsValid ==
    /\ \A b \in db.bills :
          /\ b.customer # <<>>
          /\ IsTrimmed(b.customer)
          /\ ItemsOf(db, b.id) # {}
    /\ \A it \in db.bill_items :
          /\ it.quantity >= 1
          /\ FromCatalog(it)

\* two bills are stored, with quantities 1 and 10 among their items, and an
\* invoice has been exported
C11_Witness ==
    /\ Cardinality(db.bills) = 2
    /\ \E x, y \in db.bill_items : x.quantity = 1 /\ y.quantity = 10
    /\ files # {}
    /\ ~conn.open

====
